---------------------------- MODULE Spec2Model ----------------------------
(***************************************************************************)
(* Model of the review pipeline: the offline indexer                       *)
(* (scripts/embeddings_generation.py), the writer of its source table      *)
(* (scripts/data_preprocessing.py) and the /query handler                  *)
(* (scripts/api_server.py), over the two PostgreSQL tables they share,     *)
(* cleaned_reviews and review_embeddings.                                  *)
(*                                                                         *)
(* Strings that the code walks character by character (the serialized      *)
(* query vector) are sequences of one-character strings.  Floats are       *)
(* records [kind, val]: a finite number or NaN.  A Python None is the      *)
(* empty sequence and a present value v is <<v>>.                          *)
(***************************************************************************)
EXTENDS Integers, Sequences, FiniteSets, TLC

\* ------------------------------------------------------------- bounds
MaxId == 3
MaxBatch == 2
MaxK == 2
Dim == 2

Ids == 1..MaxId

VARIABLES
    cleaned_reviews,    \* table cleaned_reviews: a set of rows
    review_embeddings,  \* table review_embeddings: its committed rows, listed by review_id
    BATCH_SIZE,         \* config.BATCH_SIZE of this deployment
    pc_ix,              \* the indexer: "idle", "running", "done", "failed"
    offset,             \* generate_and_store_embeddings: offset
    txn,                \* rows inserted by the indexer's open transaction
    visited,            \* review_ids fetched by the run so far, in fetch order
    errLog,             \* the run's error log lines: the offset and the error of a failed insert
    present,            \* review_ids in cleaned_reviews ever since the run began
    changed,            \* whether cleaned_reviews was written during the run
    request,            \* the QueryRequest handled by the last step, if it was one
    status,             \* its HTTP status, 0 when the last step was no request
    results,            \* its retrieval result (rows of the SQL query)
    response,           \* its response body
    calls               \* the collaborators it called, in order, each ok or failed

ixvars == <<BATCH_SIZE, pc_ix, offset, txn, visited, errLog, present, changed>>
qvars == <<request, status, results, response, calls>>
vars == <<cleaned_reviews, review_embeddings, ixvars, qvars>>

\* ------------------------------------------------------------- floats and vectors
Num(n) == [kind |-> "num", val |-> n]
NaN == [kind |-> "nan", val |-> 0]
IsFinite(x) == x.kind = "num"

\* The sentence-transformers model: a deterministic map from a text to a
\* vector of Dim floats.  The table stands for the external model.
encode(t) ==
    [i \in 1..Dim |->
        CASE t = "good" -> Num(IF i = 1 THEN 1 ELSE 0)
          [] t = "bad"  -> Num(IF i = 1 THEN 0 ELSE 1)
          [] t = "odd"  -> IF i = 1 THEN NaN ELSE Num(1)
          [] OTHER      -> Num(1)]

\* ------------------------------------------------------------- cleaned_reviews
RawText(i) == IF i % 2 = 1 THEN "Good!" ELSE "Bad."
CleanText(i) == IF i % 2 = 1 THEN "good" ELSE "bad"

\* One row of cleaned_reviews as preprocess_data writes it.
CleanedRow(i) ==
    [review_id |-> i, review_text |-> RawText(i), cleaned_review_text |-> CleanText(i)]

CleanedIds == {r.review_id : r \in cleaned_reviews}

RECURSIVE SortedIds(_)
\* ORDER BY review_id over a set of ids
SortedIds(S) ==
    IF S = {} THEN <<>>
    ELSE LET m == CHOOSE x \in S : \A y \in S : x <= y
         IN <<m>> \o SortedIds(S \ {m})

RowOf(i) == CHOOSE r \in cleaned_reviews : r.review_id = i

Min(a, b) == IF a < b THEN a ELSE b

\* Mutant of FetchBatch: the OFFSET parameter is dropped from the query.
FetchBatch_NoOffset(off, limit) ==
    LET ids == SortedIds(CleanedIds)
        rows == [k \in 1..Len(ids) |-> RowOf(ids[k])]
    IN SubSeq(rows, 1, Min(limit, Len(rows)))

\* SELECT review_id, cleaned_review_text FROM cleaned_reviews
\* ORDER BY review_id OFFSET :offset LIMIT :limit
FetchBatch(off, limit) ==
    LET ids == SortedIds(CleanedIds)
        rows == [k \in 1..Len(ids) |-> RowOf(ids[k])]
    IN SubSeq(rows, off + 1, Min(off + limit, Len(rows)))

SeqIds(s) == {s[k].review_id : k \in 1..Len(s)}

\* ------------------------------------------------------------- the indexer
\* df['embedding'] and data_to_insert: one (review_id, embedding) per fetched row
DataToInsert(df) ==
    [k \in 1..Len(df) |->
        [review_id |-> df[k].review_id, embedding |-> encode(df[k].cleaned_review_text)]]

\* The primary key of review_embeddings: a multi-row INSERT is refused when
\* one of its review_ids is in the table (committed or written by this
\* transaction) or occurs twice in the statement.
InsertRefused(data) ==
    \/ SeqIds(data) \cap (SeqIds(review_embeddings) \cup SeqIds(txn)) # {}
    \/ Cardinality(SeqIds(data)) # Len(data)

\* Mutant of NextOffset: the offset moves one row too far.
NextOffset_SkipOne(off, n) == off + n + 1

\* offset += len(df)
NextOffset(off, n) == off + n

\* The locals of query_reviews are request-scoped: after a step of another
\* process no handled request is on display.
NoRequest ==
    /\ request' = [query_text |-> "", top_k |-> 0]
    /\ status' = 0
    /\ results' = <<>>
    /\ response' = <<>>
    /\ calls' = <<>>

\* The locals of a run are process-scoped: once the process has ended, a
\* step of another process finds them gone.
RunGone ==
    IF pc_ix = "running"
    THEN UNCHANGED <<pc_ix, offset, txn, visited, errLog, present, changed>>
    ELSE /\ pc_ix' = "idle"
         /\ offset' = 0
         /\ txn' = <<>>
         /\ visited' = <<>>
         /\ errLog' = <<>>
         /\ present' = {}
         /\ changed' = FALSE

RECURSIVE ById(_)
\* The rows of a table listed by review_id (a table is a bag of rows; rows
\* with the same review_id stay side by side)
ById(rows) ==
    IF rows = <<>> THEN <<>>
    ELSE LET k == CHOOSE i \in 1..Len(rows) :
                     \A j \in 1..Len(rows) :
                        \/ rows[i].review_id < rows[j].review_id
                        \/ rows[i].review_id = rows[j].review_id /\ i <= j
         IN <<rows[k]>> \o ById(SubSeq(rows, 1, k - 1) \o SubSeq(rows, k + 1, Len(rows)))

\* engine.begin() and the first lines of the run
IndexerBegin ==
    /\ pc_ix # "running"
    /\ pc_ix' = "running"
    /\ offset' = 0
    /\ txn' = <<>>
    /\ visited' = <<>>
    /\ errLog' = <<>>
    /\ present' = CleanedIds
    /\ changed' = FALSE
    /\ NoRequest
    /\ UNCHANGED <<cleaned_reviews, review_embeddings, BATCH_SIZE>>

\* Mutant of Abort: the batches written before the failure are kept (a
\* connection that commits each statement).
Abort_KeepBatches(logged) ==
    /\ pc_ix' = "failed"
    /\ txn' = <<>>
    /\ errLog' = logged
    /\ review_embeddings' = ById(review_embeddings \o txn)
    /\ UNCHANGED offset

\* The transaction of engine.begin() rolls back when the block raises.
Abort(logged) ==
    /\ pc_ix' = "failed"
    /\ txn' = <<>>
    /\ errLog' = logged
    /\ UNCHANGED <<review_embeddings, offset>>

\* Mutant of IndexerBatch: every batch is committed as it is written (a
\* connection from engine.connect() that commits each statement).
IndexerBatch_CommitEachBatch ==
    /\ pc_ix = "running"
    /\ LET df == FetchBatch(offset, BATCH_SIZE) IN
       IF df = <<>>
       THEN /\ pc_ix' = "done"
            /\ UNCHANGED <<review_embeddings, txn, offset, visited, errLog>>
       ELSE /\ visited' = visited \o [k \in 1..Len(df) |-> df[k].review_id]
            /\ \E fault \in {"none", "encode", "write"} :
                 LET data == DataToInsert(df) IN
                 CASE fault = "encode" -> Abort(<<>>)
                   [] fault = "write" ->
                        Abort(<<[offset |-> offset, error |-> "OperationalError"]>>)
                   [] InsertRefused(data) ->
                        Abort(<<[offset |-> offset, error |-> "IntegrityError"]>>)
                   [] OTHER ->
                        /\ review_embeddings' = ById(review_embeddings \o data)
                        /\ offset' = NextOffset(offset, Len(df))
                        /\ UNCHANGED <<pc_ix, txn, errLog>>
    /\ NoRequest
    /\ UNCHANGED <<cleaned_reviews, BATCH_SIZE, present, changed>>

\* One turn of the while loop: fetch, encode, insert, advance; the empty
\* fetch leaves the loop and the with block, which commits.
IndexerBatch ==
    /\ pc_ix = "running"
    /\ LET df == FetchBatch(offset, BATCH_SIZE) IN
       IF df = <<>>
       THEN /\ pc_ix' = "done"
            /\ review_embeddings' = ById(review_embeddings \o txn)
            /\ txn' = <<>>
            /\ UNCHANGED <<offset, visited, errLog>>
       ELSE /\ visited' = visited \o [k \in 1..Len(df) |-> df[k].review_id]
            /\ \E fault \in {"none", "encode", "write"} :
                 LET data == DataToInsert(df) IN
                 CASE fault = "encode" -> Abort(<<>>)
                   [] fault = "write" ->
                        Abort(<<[offset |-> offset, error |-> "OperationalError"]>>)
                   [] InsertRefused(data) ->
                        Abort(<<[offset |-> offset, error |-> "IntegrityError"]>>)
                   [] OTHER ->
                        /\ txn' = txn \o data
                        /\ offset' = NextOffset(offset, Len(df))
                        /\ UNCHANGED <<pc_ix, review_embeddings, errLog>>
    /\ NoRequest
    /\ UNCHANGED <<cleaned_reviews, BATCH_SIZE, present, changed>>

\* ------------------------------------------------------------- writers of the source
\* preprocess_data: to_sql(if_exists='replace') drops and rewrites the table.
\* DROP TABLE waits for the indexer's transaction, which holds a lock on the
\* table from its first SELECT on.
preprocess_data ==
    /\ pc_ix # "running"
    /\ \E S \in SUBSET Ids :
         /\ cleaned_reviews' = {CleanedRow(i) : i \in S}
         /\ cleaned_reviews' # cleaned_reviews
    /\ RunGone
    /\ NoRequest
    /\ UNCHANGED <<review_embeddings, BATCH_SIZE>>

\* A row written to cleaned_reviews by another session between two batch
\* SELECTs of a run.  The run's transaction is READ COMMITTED (the engine's
\* default): each of its SELECTs sees the rows committed before it.
SourceInsert ==
    /\ pc_ix = "running"
    /\ \E i \in Ids \ CleanedIds :
         cleaned_reviews' = cleaned_reviews \cup {CleanedRow(i)}
    /\ changed' = TRUE
    /\ NoRequest
    /\ UNCHANGED <<review_embeddings, BATCH_SIZE, pc_ix, offset, txn, visited,
                   errLog, present>>

SourceDelete ==
    /\ pc_ix = "running"
    /\ \E r \in cleaned_reviews :
         /\ cleaned_reviews' = cleaned_reviews \ {r}
         /\ present' = present \ {r.review_id}
    /\ changed' = TRUE
    /\ NoRequest
    /\ UNCHANGED <<review_embeddings, BATCH_SIZE, pc_ix, offset, txn, visited,
                   errLog>>

\* ------------------------------------------------------------- the query path
Digits == <<"0", "1", "2", "3", "4", "5", "6", "7", "8", "9">>
DigitSet == {Digits[k] : k \in 1..Len(Digits)}
DigitVal(c) == (CHOOSE k \in 1..Len(Digits) : Digits[k] = c) - 1
Abs(n) == IF n < 0 THEN -n ELSE n

\* str(x) of a Python float: "1.0", "-1.0", "nan"
FloatStr(x) ==
    IF IsFinite(x)
    THEN (IF x.val < 0 THEN <<"-">> ELSE <<>>) \o <<Digits[Abs(x.val) + 1], ".", "0">>
    ELSE <<"n", "a", "n">>

RECURSIVE JoinComma(_)
\* ','.join(strs)
JoinComma(strs) ==
    IF strs = <<>> THEN <<>>
    ELSE IF Len(strs) = 1 THEN strs[1]
    ELSE strs[1] \o <<",">> \o JoinComma(Tail(strs))

\* query_embedding_str = '[' + ','.join(map(str, query_embedding_list)) + ']'
EmbeddingStr(v) == <<"[">> \o JoinComma([k \in 1..Len(v) |-> FloatStr(v[k])]) \o <<"]">>

\* re.match(r'^\[[-\d., e]+\]$', query_embedding_str)
RegexMatch(s) ==
    /\ Len(s) >= 3
    /\ s[1] = "["
    /\ s[Len(s)] = "]"
    /\ \A k \in 2..(Len(s) - 1) : s[k] \in DigitSet \cup {"-", ".", ",", " ", "e"}

RECURSIVE SplitComma(_)
SplitComma(s) ==
    IF \A k \in 1..Len(s) : s[k] # ","
    THEN <<s>>
    ELSE LET k == CHOOSE j \in 1..Len(s) : s[j] = "," /\ \A i \in 1..(j - 1) : s[i] # ","
         IN <<SubSeq(s, 1, k - 1)>> \o SplitComma(SubSeq(s, k + 1, Len(s)))

\* The store's reading of one component of a vector literal; anything that
\* is no finite number is refused.
ParseFloat(t) ==
    LET neg == Len(t) > 0 /\ t[1] = "-"
        body == IF neg THEN Tail(t) ELSE t
    IN IF Len(body) = 3 /\ body[1] \in DigitSet /\ body[2] = "." /\ body[3] = "0"
       THEN Num(IF neg THEN -DigitVal(body[1]) ELSE DigitVal(body[1]))
       ELSE NaN

\* '...'::vector : the store's reading of the literal in the SQL text
ParseVector(s) ==
    LET parts == SplitComma(SubSeq(s, 2, Len(s) - 1))
    IN [k \in 1..Len(parts) |-> ParseFloat(parts[k])]

\* The cast raises unless every component is a finite number and the
\* dimension is that of the column.
VectorRefused(s) ==
    LET v == ParseVector(s)
    IN Len(v) # Dim \/ \E k \in 1..Len(v) : ~IsFinite(v[k])

RECURSIVE Dot(_, _, _)
Dot(a, b, n) == IF n = 0 THEN 0 ELSE a[n].val * b[n].val + Dot(a, b, n - 1)

\* a <#> b : the negative inner product
NegInner(a, b) == -Dot(a, b, Len(a))

\* FROM review_embeddings re JOIN cleaned_reviews cr ON cr.review_id = re.review_id,
\* with its three selected columns
JoinedRows(q) ==
    {[review_id |-> r.review_id,
      review_text |-> r.review_text,
      similarity |-> 1 - NegInner(review_embeddings[k].embedding, q)] :
        <<k, r>> \in {kr \in (1..Len(review_embeddings)) \X cleaned_reviews :
                        kr[2].review_id = review_embeddings[kr[1]].review_id}}

\* ORDER BY re.embedding <#> q ASC : every order of the rows in which the
\* distance never decreases (rows at the same distance come in any order)
Ordered(rows) ==
    LET n == Cardinality(rows)
    IN {s \in [1..n -> rows] :
          /\ \A i, j \in 1..n : i # j => s[i] # s[j]
          /\ \A i \in 1..(n - 1) : s[i].similarity >= s[i + 1].similarity}

\* Mutant of Limit: one row too many.
Limit_OneMore(s, k) == SubSeq(s, 1, Min(k + 1, Len(s)))

\* LIMIT {top_k}
Limit(s, k) == SubSeq(s, 1, Min(k, Len(s)))

\* The results the SQL query can return
QueryResults(q, k) == {Limit(s, k) : s \in Ordered(JoinedRows(q))}

\* Mutant of ValidTopK: zero is let through.
ValidTopK_ZeroAllowed(k) == k >= 0

\* if top_k <= 0: raise ValueError
ValidTopK(k) == k > 0

\* Mutant of NoResults: the empty result is not noticed.
NoResults_Never(res) == FALSE

\* if not results
NoResults(res) == res = <<>>

\* Mutant of BuildResponse: the generated text goes on every row.
BuildResponse_AllRows(res, generated_text) ==
    [k \in 1..Len(res) |->
        [review_id |-> res[k].review_id,
         review_text |-> res[k].review_text,
         similarity_score |-> res[k].similarity,
         generated_response |-> <<generated_text>>]]

\* The response list: generated_text if idx == 0 else None
BuildResponse(res, generated_text) ==
    [k \in 1..Len(res) |->
        [review_id |-> res[k].review_id,
         review_text |-> res[k].review_text,
         similarity_score |-> res[k].similarity,
         generated_response |-> IF k = 1 THEN <<generated_text>> ELSE <<>>]]

\* generate_response: the stripped content of the first choice
generate_response(context_texts, query_text) ==
    [context |-> context_texts, question |-> query_text]

Call(to) == [to |-> to, ok |-> TRUE]
Failed(to) == [to |-> to, ok |-> FALSE]
Outcome(st, res, resp, cs) == [status |-> st, results |-> res, response |-> resp, calls |-> cs]

\* The collaborators of query_reviews that can fail when they are called
Faults == {"encode", "db", "openai"}

\* The ways query_reviews can end for a request when the collaborators in
\* `down` fail if they are called.
Handle(req, down) ==
    IF ~ValidTopK(req.top_k) THEN {Outcome(400, <<>>, <<>>, <<>>)}
    ELSE IF "encode" \in down THEN {Outcome(500, <<>>, <<>>, <<Failed("encode")>>)}
    ELSE LET str == EmbeddingStr(encode(req.query_text)) IN
    IF ~RegexMatch(str) THEN {Outcome(400, <<>>, <<>>, <<Call("encode")>>)}
    ELSE IF "db" \in down \/ VectorRefused(str)
         THEN {Outcome(500, <<>>, <<>>, <<Call("encode"), Failed("db")>>)}
    ELSE {IF NoResults(res)
          THEN Outcome(404, res, <<>>, <<Call("encode"), Call("db")>>)
          ELSE IF "openai" \in down
          THEN Outcome(500, res, <<>>, <<Call("encode"), Call("db"), Failed("openai")>>)
          ELSE Outcome(200, res,
                       BuildResponse(res,
                           generate_response([k \in 1..Len(res) |-> res[k].review_text],
                                             req.query_text)),
                       <<Call("encode"), Call("db"), Call("openai")>>) :
            res \in QueryResults(ParseVector(str), req.top_k)}

\* Every way the handler can end for a request, whichever collaborator fails
Endings(req) == UNION {Handle(req, {f}) : f \in Faults \cup {"none"}}

QueryTexts == {"", "good", "odd"}
Requests == [query_text : QueryTexts, top_k : -1..MaxK]

query_reviews ==
    /\ \E req \in Requests :
         \E o \in Endings(req) :
            /\ request' = req
            /\ status' = o.status
            /\ results' = o.results
            /\ response' = o.response
            /\ calls' = o.calls
    /\ RunGone
    /\ UNCHANGED <<cleaned_reviews, review_embeddings, BATCH_SIZE>>

\* ------------------------------------------------------------- the specifications
Init ==
    /\ cleaned_reviews \in {{CleanedRow(i) : i \in S} : S \in SUBSET Ids}
    /\ review_embeddings = <<>>
    /\ BATCH_SIZE \in 1..MaxBatch
    /\ pc_ix = "idle"
    /\ offset = 0
    /\ txn = <<>>
    /\ visited = <<>>
    /\ errLog = <<>>
    /\ present = {}
    /\ changed = FALSE
    /\ request = [query_text |-> "", top_k |-> 0]
    /\ status = 0
    /\ results = <<>>
    /\ response = <<>>
    /\ calls = <<>>

Next ==
    \/ IndexerBegin
    \/ IndexerBatch
    \/ preprocess_data
    \/ query_reviews

Spec == Init /\ [][Next]_vars

\* The indexer and preprocess_data beside other sessions that write rows of
\* cleaned_reviews while a run is under way.
NextConc ==
    \/ IndexerBegin
    \/ IndexerBatch
    \/ preprocess_data
    \/ SourceInsert
    \/ SourceDelete

SpecConc == Init /\ [][NextConc]_vars

\* ------------------------------------------------------------- the claims
Handled == status # 0
Called(to) == \E k \in 1..Len(calls) : calls[k].to = to
Returned(to) == \E k \in 1..Len(calls) : calls[k] = Call(to)
SomeCallFailed == \E k \in 1..Len(calls) : ~calls[k].ok
NoDup(s) == \A i, j \in 1..Len(s) : i # j => s[i] # s[j]
Range(s) == {s[k] : k \in 1..Len(s)}

\* C1: a request whose top_k is 0 or negative ends in 400, and on that path
\* neither the embedding model nor the store nor the generation is called.
C1_NonPositiveTopKRejected ==
    (Handled /\ request.top_k <= 0) => (status = 400 /\ calls = <<>>)

C1_Witness ==
    /\ status = 400
    /\ request.top_k < 0
    /\ request.query_text = "good"
    /\ review_embeddings # <<>>

\* C2: a request whose query_text is the empty string ends in a client
\* error, with no call to the embedding model, the store or the generation.
C2_EmptyTextRejected ==
    (Handled /\ request.query_text = "") => (status = 400 /\ calls = <<>>)

\* C3: when retrieval returns no row (as it does on an empty store) the
\* request ends in 404, not 400, and generate_response is not called;
\* generation is called only after retrieval returned at least one row.
C3_NoMatchIsNotFound ==
    /\ (Handled /\ Returned("db") /\ results = <<>>) =>
            (status = 404 /\ ~Called("openai"))
    /\ (Handled /\ Returned("db") /\ review_embeddings = <<>>) => status = 404
    /\ (Handled /\ Called("openai")) =>
            (results # <<>> /\ calls[Len(calls)].to = "openai" /\ Returned("db"))

C3_Witness ==
    /\ status = 404
    /\ review_embeddings = <<>>
    /\ request.query_text = "good"
    /\ Returned("db")

\* The store holds the result of a successful run on the present source.
HoldsResultOfRun ==
    /\ review_embeddings # <<>>
    /\ Len(review_embeddings) = Cardinality(CleanedIds)
    /\ \A r \in cleaned_reviews :
         \E k \in 1..Len(review_embeddings) :
            review_embeddings[k] =
                [review_id |-> r.review_id, embedding |-> encode(r.cleaned_review_text)]

\* C4: a run on an unchanged source against a store that holds the result
\* of a previous successful run completes: its own insert is never refused.
C4_RerunCompletes ==
    (pc_ix = "failed" /\ errLog # <<>> /\ errLog[1].error = "IntegrityError")
        => ~HoldsResultOfRun

C6_ExactlyOnceUnderWrites ==
    /\ NoDup(visited)
    /\ pc_ix = "done" => present \subseteq Range(visited)

\* C6 as amended: when no other session writes to cleaned_reviews during
\* the run, no record is fetched twice and a completed run has fetched
\* exactly the records of the source.
C6_ExactlyOnceWhenUnchanged ==
    ~changed =>
        /\ NoDup(visited)
        /\ pc_ix = "done" => (Range(visited) = CleanedIds /\ present = CleanedIds)
        /\ pc_ix = "running" => visited = SubSeq(SortedIds(CleanedIds), 1, offset)

C6_Witness ==
    /\ pc_ix = "done"
    /\ ~changed
    /\ BATCH_SIZE = 1
    /\ Len(visited) = MaxId

\* C7: a run that starts on an empty review_embeddings and completes leaves
\* exactly one row per review_id of the source, each with a vector of Dim
\* components; on an empty source it fetches no batch and completes.
C7_OneRecordPerId ==
    [][/\ (pc_ix = "running" /\ pc_ix' = "done" /\ review_embeddings = <<>>) =>
            /\ SeqIds(review_embeddings') = CleanedIds
            /\ Len(review_embeddings') = Cardinality(CleanedIds)
            /\ \A k \in 1..Len(review_embeddings') :
                  /\ Len(review_embeddings'[k].embedding) = Dim
                  /\ review_embeddings'[k].embedding =
                        encode(RowOf(review_embeddings'[k].review_id).cleaned_review_text)
       /\ (pc_ix = "running" /\ pc_ix' # "running" /\ cleaned_reviews = {}) =>
            (pc_ix' = "done" /\ visited' = <<>> /\ offset' = 0)]_vars

C7_Witness ==
    /\ pc_ix = "done"
    /\ BATCH_SIZE = 1
    /\ Len(review_embeddings) = MaxId
    /\ offset = MaxId

C7_WitnessEmptySource ==
    pc_ix = "done" /\ cleaned_reviews = {} /\ review_embeddings = <<>>

SortedBySimilarity(res) ==
    \A k \in 1..(Len(res) - 1) : res[k].similarity >= res[k + 1].similarity

\* C8 as stated: retrieval returns at most top_k rows, by descending
\* similarity, and fewer than top_k iff review_embeddings holds fewer than
\* top_k rows.
C8_FewerIffStoreSmaller ==
    (Handled /\ Returned("db")) =>
        /\ Len(results) <= request.top_k
        /\ SortedBySimilarity(results)
        /\ (Len(results) < request.top_k) <=> (Len(review_embeddings) < request.top_k)

\* The rows of review_embeddings whose review_id has a row in cleaned_reviews
Matchable == {k \in 1..Len(review_embeddings) : review_embeddings[k].review_id \in CleanedIds}

\* C8 as amended: retrieval returns at most top_k rows, by descending
\* similarity, and fewer than top_k iff fewer than top_k rows of
\* review_embeddings have a row with the same review_id in cleaned_reviews.
C8_FewerIffJoinSmaller ==
    (Handled /\ Returned("db")) =>
        /\ Len(results) <= request.top_k
        /\ SortedBySimilarity(results)
        /\ (Len(results) < request.top_k) <=> (Cardinality(Matchable) < request.top_k)
        /\ NoDup(results)
        /\ \A k \in 1..Len(results) : results[k].review_id \in SeqIds(review_embeddings)

C8_Witness ==
    /\ status = 200
    /\ request.top_k = 2
    /\ Len(results) = 1
    /\ Len(review_embeddings) = 2

\* C9: in a successful response the generated text is on the first row and
\* on no other, and the rows are those of retrieval in retrieval's order.
C9_AnswerOnFirstMatchOnly ==
    status = 200 =>
        /\ Len(response) = Len(results)
        /\ Len(response) >= 1
        /\ response[1].generated_response # <<>>
        /\ \A k \in 2..Len(response) : response[k].generated_response = <<>>
        /\ \A k \in 1..Len(response) :
              /\ response[k].review_id = results[k].review_id
              /\ response[k].review_text = results[k].review_text
              /\ response[k].similarity_score = results[k].similarity

C9_Witness ==
    /\ status = 200
    /\ Len(response) >= 2
    /\ response[1].similarity_score > response[2].similarity_score

\* The model's vector for the request's text does not make a vector literal
\* the store accepts.
MalformedQueryVector ==
    LET str == EmbeddingStr(encode(request.query_text))
    IN ~RegexMatch(str) \/ VectorRefused(str)

\* C10: a request that passed validation and met a failure of the embedding
\* model, of the store (a malformed query vector included) or of the
\* generation ends in a server error.
C10_FailuresAreServerErrors ==
    (Handled /\ request.top_k > 0 /\ request.query_text # ""
        /\ (SomeCallFailed \/ MalformedQueryVector))
    => status = 500

\* The review_ids of the records the run has written so far
WrittenByRun == {visited[k] : k \in 1..Min(offset, Len(visited))}

\* C11: a query that retrieves while an indexer run is under way, or after
\* it ended, never sees part of the run's records: the rows it reads are
\* committed rows of review_embeddings, which hold none of the run's records
\* while the run is under way or after it failed, and all of them once it
\* completed.
C11_QuerySeesNoneOrAll ==
    [][(status' # 0 /\ Returned("db")') =>
          LET seenIds == SeqIds(results') IN
          /\ review_embeddings' = review_embeddings
          /\ seenIds \subseteq SeqIds(review_embeddings)
          /\ pc_ix \in {"running", "failed"} =>
                /\ SeqIds(review_embeddings) \cap WrittenByRun = {}
                /\ seenIds \cap WrittenByRun = {}
          /\ pc_ix = "done" =>
                /\ WrittenByRun \subseteq SeqIds(review_embeddings)
                /\ Len(results') < request'.top_k => WrittenByRun \subseteq seenIds]_vars

C11_Witness ==
    /\ status = 200
    /\ pc_ix = "running"
    /\ txn # <<>>
    /\ results # <<>>
=============================================================================
